---- MODULE Spec2Model ----
(***************************************************************************)
(* pdfstract: the converter registry (services/ocrfactory.py OCRFactory),  *)
(* the enablement table it reads (services/db_methods_snippet.py) and the  *)
(* library API built on the registry (pdfstract/api.py PDFStract):         *)
(* convert, convert_async, the thread-pool batch_convert, chunk_text and    *)
(* convert_chunk; and the download lifecycle of a converter:               *)
(* MinerUConverter (services/converters/mineru_converter.py), which needs  *)
(* no download, and a converter that fetches its model on first prepare(). *)
(*                                                                         *)
(* PDFStract holds its registry in self._factory and uses three of its     *)
(* methods: get_converter, list_available_converters and convert.  They    *)
(* are modelled by the methods of these names of OCRFactory, the registry  *)
(* the source tree contains.                                               *)
(***************************************************************************)
EXTENDS Integers, Sequences, FiniteSets, TLC

\* ------------------------------------------------------------------ bounds

\* How many of the known converter kinds (a prefix of AllConverterNames) exist.
NumKnown == 2
\* How many distinct PDF file names the directory can hold.
MaxFiles == 2
\* Largest parallel_workers argument tried.
MaxWorkers == 2
\* Longest text handed to chunk_text.
MaxTextLen == 2
\* How many callers call prepare() on the same converter instance.
NumCallers == 2
\* How many download attempts a converter instance makes at most.
MaxDownloads == 2

\* ------------------------------------------------------- names and inputs

\* The known converter kinds, in registration order.
AllConverterNames ==
    <<"pymupdf4llm", "markitdown", "marker", "docling",
      "paddleocr", "deepseekocr", "pytesseract", "unstructured">>

KnownSeq == SubSeq(AllConverterNames, 1, NumKnown)

Known == {KnownSeq[i] : i \in 1..NumKnown}

\* A library name no converter kind has.
UnknownName == "nonexistent_library"

Names == Known \cup {UnknownName}

\* The converter kinds whose dependency is installed on this machine: all
\* but the last.
Installed == {KnownSeq[i] : i \in 1..(NumKnown - 1)}

\* File names, in sorted order; position in the sequence is the sort key.
FileNames == <<"a.pdf", "b.pdf", "c.pdf", "d.pdf">>

Files == {FileNames[i] : i \in 1..MaxFiles}

\* The directory the files live in, and a path that is no directory.
PdfDir == "pdfs"

MissingDir == "missing_dir"

DirArgs == {PdfDir, MissingDir}

\* The members of the OutputFormat enumeration the registry dispatches on.
OutputFormatValues == {"markdown", "json", "text"}

\* The output_format strings the callers pass; "docx" is no OutputFormat.
FormatArgs == {"markdown", "json", "docx"}

None == "None"

VARIABLES
    available,       \* converter kinds whose dependency is installed (converter.available)
    user_libraries,  \* the enablement table: library_name -> is_enabled (0 or 1)
    converters,      \* OCRFactory._converters: the names registered
    enabled_read,    \* enabled_libraries as read by the latest registry build
    dir,             \* the PDF directory: file name -> "absent", "good" or "corrupt"
    ret,             \* the latest API call: its arguments and what it returned or raised
    pc,              \* batch_convert's position: "idle", "submit", "collect" or "return"
    pdf_files,       \* batch_convert's sorted snapshot of the directory
    call,            \* the arguments of the batch_convert in flight
    futures,         \* per snapshot item: "new", "queued", "running" or its finished tuple
    idx,             \* the main thread's loop index (submitting, then collecting)
    results,         \* batch_convert's aggregate under construction
    chunkers,        \* the chunkers the chunker factory lists as available
    MINERU_AVAILABLE,\* whether the mineru command was found when the module was imported
    mineru,          \* the MinerUConverter instance: its private fields
    lazy,            \* a download-requiring converter instance: its lifecycle state
    callers,         \* per caller of lazy.prepare(): where it is and what it saw
    refresher        \* a thread inside refresh_converters: its position

registryVars == <<available, user_libraries, converters, enabled_read>>

batchVars == <<pc, pdf_files, call, futures, idx, results>>

\* What the registry and the batch engine never touch.
extVars == <<chunkers, MINERU_AVAILABLE, mineru, lazy, callers, refresher>>

vars == <<available, user_libraries, converters, enabled_read, dir, ret,
          pc, pdf_files, call, futures, idx, results,
          chunkers, MINERU_AVAILABLE, mineru, lazy, callers, refresher>>

\* ------------------------------------------------------ returned / raised

NoMsg == <<>>

Returned(v) ==
    [kind |-> "return", exc |-> None, msg |-> NoMsg, listed |-> <<>>, value |-> v]

Raised(e, m, l) ==
    [kind |-> "raise", exc |-> e, msg |-> m, listed |-> l, value |-> <<>>]

\* ------------------------------------------------------------ enablement

\* SELECT library_name FROM user_libraries WHERE is_enabled = 1
get_enabled_libraries ==
    {n \in DOMAIN user_libraries : user_libraries[n] = 1}

\* The statement updating every row, not only the conflicting one.
UpsertEveryRow(table, library_name, is_enabled) ==
    [n \in DOMAIN table \cup {library_name} |-> IF is_enabled THEN 1 ELSE 0]

\* INSERT ... ON CONFLICT(library_name) DO UPDATE SET is_enabled = ?
Upsert(table, library_name, is_enabled) ==
    [n \in DOMAIN table \cup {library_name} |->
        IF n = library_name THEN (IF is_enabled THEN 1 ELSE 0) ELSE table[n]]

\* ---------------------------------------------------------------- registry

\* RegisterLoop without the `continue` for a converter that is not enabled.
RegisterLoopIgnoringEnabled(regs, enabled_libraries) ==
    regs \cup {n \in Known : n \in available}

\* RegisterLoop registering a converter whether or not it is available.
RegisterLoopIgnoringAvailable(regs, enabled_libraries) ==
    regs \cup {n \in Known : n \in enabled_libraries}

\* The registry left by the loop of _register_default_converters over
\* all_converters when it starts from registry `regs`.
RegisterLoop(regs, enabled_libraries) ==
    regs \cup {n \in Known : n \in enabled_libraries /\ n \in available}

\* _register_default_converters: with no enabled library it logs
\* "Registering all converters." and returns, registering none.
RegisterDefaultConverters(regs, enabled_libraries) ==
    IF Cardinality(enabled_libraries) = 0
    THEN regs
    ELSE RegisterLoop(regs, enabled_libraries)

\* get_converter: dict.get, the instance or None.  An instance is named by
\* its key.
GetConverter(name) ==
    IF name \in converters THEN name ELSE None

\* list_available_converters: the registry's keys in insertion order, which
\* is the order of all_converters.
ListAvailableConverters ==
    SelectSeq(KnownSeq, LAMBDA n : n \in converters)

\* An entry of list_all_converters whose getattr falls back to None.
DescriptorDefaultNone(name, enabled_libraries) ==
    LET converter == GetConverter(name)
        avail == converter # None /\ converter \in available
    IN  [name |-> name,
         available |-> avail,
         error |-> None,
         enabled |-> name \in enabled_libraries]

\* One entry of list_all_converters.  Only available converters are ever
\* registered, so for an unavailable one `converter` is None and getattr
\* yields its default.
Descriptor(name, enabled_libraries) ==
    LET converter == GetConverter(name)
        avail == converter # None /\ converter \in available
    IN  [name |-> name,
         available |-> avail,
         error |-> IF avail THEN None ELSE "Unavailable",
         enabled |-> name \in enabled_libraries]

ListAllConverters ==
    [i \in 1..NumKnown |-> Descriptor(KnownSeq[i], get_enabled_libraries)]

\* get_enabled_libraries as the registry calls it: the rows selected, or the
\* sqlite3 error of a connect or execute that fails.
GetEnabledLibrariesOutcome(db_raises) ==
    IF db_raises
    THEN Raised("OperationalError", <<"database is locked">>, <<>>)
    ELSE Returned(get_enabled_libraries)

\* What `except Exception as e: logger.error(...)` writes for a read `db`.
LoggedFor(db) ==
    IF db.kind = "raise"
    THEN <<<<"error", "Failed to load enabled libraries from DB">> \o db.msg>>
    ELSE <<>>

\* _register_default_converters from registry `regs`, with the read of the
\* table ending as `db`.  The except clause logs and binds nothing, so the
\* logger.info that follows it reads enabled_libraries unbound.
RegisterDefaultConvertersOutcome(regs, db) ==
    IF db.kind = "raise"
    THEN [regs |-> regs, logged |-> LoggedFor(db),
          out |-> Raised("UnboundLocalError", <<"enabled_libraries">>, <<>>)]
    ELSE [regs |-> RegisterDefaultConverters(regs, db.value), logged |-> LoggedFor(db),
          out |-> Returned(None)]

\* list_all_converters with the read of the table ending as `db`.  After a
\* failed read the first entry built reads enabled_libraries unbound.
ListAllConvertersOutcome(db) ==
    IF db.kind = "raise" /\ NumKnown > 0
    THEN [logged |-> LoggedFor(db),
          out |-> Raised("UnboundLocalError", <<"enabled_libraries">>, <<>>)]
    ELSE [logged |-> LoggedFor(db),
          out |-> Returned([i \in 1..NumKnown |-> Descriptor(KnownSeq[i], db.value)])]

\* ------------------------------------------------------------ file system

\* A path is <<directory, file name>>; Path.name is its last component.
PathOf(f) == <<PdfDir, f>>

PathName(p) == p[2]

PathArgs == {PathOf(f) : f \in Files}

\* What is at path p: "absent", "good" (a PDF a backend can convert) or
\* "corrupt" (a PDF on which the backend raises).
FileState(p) ==
    IF p[1] = PdfDir /\ p[2] \in Files THEN dir[p[2]] ELSE "absent"

\* pdf_dir.glob("*.pdf"): the PDF files present, in no particular order.
Glob == {PathOf(f) : f \in {g \in Files : dir[g] # "absent"}}

\* sorted(paths): ascending by name.
Sorted(paths) ==
    SelectSeq([i \in 1..MaxFiles |-> PathOf(FileNames[i])], LAMBDA p : p \in paths)

\* ------------------------------------------------------- converter backends

\* converter.supports_format: the first converter kind produces markdown
\* only, the others every format.
SupportsFormat(name, output_format) ==
    \/ name # KnownSeq[1]
    \/ output_format = "markdown"

\* converter.convert_to_md / convert_to_json / convert_to_text on a file in
\* state fstate: the content, or the backend's own exception.
BackendCall(name, file_path, fstate, output_format) ==
    IF fstate = "good"
    THEN Returned(<<"content", output_format, PathName(file_path), name>>)
    ELSE Raised("RuntimeError", <<"backend failed", PathName(file_path)>>, <<>>)

\* OCRFactory.convert_async
FactoryConvertAsync(converter_name, file_path, fstate, output_format) ==
    LET converter == GetConverter(converter_name)
    IN  IF converter = None
        THEN Raised("ValueError", <<"Converter is not available", converter_name>>, <<>>)
        ELSE IF ~SupportsFormat(converter, output_format)
        THEN Raised("ValueError",
                    <<"Converter does not support format", converter_name, output_format>>,
                    <<>>)
        ELSE IF output_format \in {"markdown", "json", "text"}
        THEN BackendCall(converter, file_path, fstate, output_format)
        ELSE Raised("ValueError", <<"Unsupported output format", output_format>>, <<>>)

\* OCRFactory.convert: asyncio.run(self.convert_async(...)), which returns
\* the coroutine's result or re-raises its exception.
FactoryConvert(converter_name, file_path, fstate, output_format) ==
    FactoryConvertAsync(converter_name, file_path, fstate, output_format)

\* OutputFormat(output_format) followed by the registry call `via`, as the
\* body of the try block of convert / convert_async evaluates them.
TryConvert(via, library, pdf_path, fstate, output_format) ==
    IF output_format \notin OutputFormatValues
    THEN Raised("ValueError", <<"is not a valid OutputFormat", output_format>>, <<>>)
    ELSE IF via = "convert"
    THEN FactoryConvert(library, pdf_path, fstate, output_format)
    ELSE FactoryConvertAsync(library, pdf_path, fstate, output_format)

\* The try block without its except clause: what the registry call raised
\* leaves convert as it is.
WrapNothing(r) == r

\* except Exception as e: raise ValueError(f"Conversion failed: {str(e)}")
WrapConversionFailed(r) ==
    IF r.kind = "raise"
    THEN Raised("ValueError", <<"Conversion failed">> \o r.msg, <<>>)
    ELSE r

LibraryNotAvailable(library) ==
    Raised("ValueError", <<"Library not available", library>>, ListAvailableConverters)

PdfFileNotFound(pdf_path) ==
    Raised("FileNotFoundError", <<"PDF file not found", PathName(pdf_path)>>, <<>>)

\* convert with its two checks in the order convert_async makes them.
ConvertOutcomeFileFirst(pdf_path, fstate, library, output_format) ==
    IF fstate = "absent"
    THEN PdfFileNotFound(pdf_path)
    ELSE IF GetConverter(library) = None
    THEN LibraryNotAvailable(library)
    ELSE WrapConversionFailed(TryConvert("convert", library, pdf_path, fstate, output_format))

\* PDFStract.convert on a file in state fstate: the library first, then the
\* file, then the conversion.
ConvertOutcome(pdf_path, fstate, library, output_format) ==
    IF GetConverter(library) = None
    THEN LibraryNotAvailable(library)
    ELSE IF fstate = "absent"
    THEN PdfFileNotFound(pdf_path)
    ELSE WrapConversionFailed(TryConvert("convert", library, pdf_path, fstate, output_format))

\* PDFStract.convert_async: the file first, then the library, then the
\* conversion.
ConvertAsyncOutcome(pdf_path, fstate, library, output_format) ==
    IF fstate = "absent"
    THEN PdfFileNotFound(pdf_path)
    ELSE IF GetConverter(library) = None
    THEN LibraryNotAvailable(library)
    ELSE WrapConversionFailed(TryConvert("convert_async", library, pdf_path, fstate, output_format))

\* ---------------------------------------------------------------- chunking

\* The chunker kinds, in the chunker factory's iteration order.
KnownChunkerSeq == <<"token", "semantic">>

KnownChunkers == {KnownChunkerSeq[i] : i \in DOMAIN KnownChunkerSeq}

\* The chunker arguments tried: the kinds, 'auto' and a name no chunker has.
ChunkerArgs == KnownChunkers \cup {"auto", "nonexistent_chunker"}

\* Texts: strings of blanks and letters.
Chars == {" ", "w"}

TextArgs == UNION {[1..n -> Chars] : n \in 0..MaxTextLen}

\* not text or not text.strip(): nothing is left once the blanks are removed.
IsBlank(text) == \A i \in DOMAIN text : text[i] = " "

\* Chunker parameters: a set the chunker accepts and one it raises on.
ParamArgs == {"chunk_size=512", "chunk_size=-1"}

\* factory.list_available_chunkers()
ListAvailableChunkers ==
    LET F[i \in 0..Len(KnownChunkerSeq)] ==
            IF i = 0 THEN <<>>
            ELSE IF KnownChunkerSeq[i] \in chunkers
                 THEN Append(F[i - 1], KnownChunkerSeq[i])
                 ELSE F[i - 1]
    IN  F[Len(KnownChunkerSeq)]

\* factory.get_default_chunker(): the first available chunker, or None.
GetDefaultChunker ==
    IF ListAvailableChunkers = <<>> THEN None ELSE ListAvailableChunkers[1]

\* factory.chunk_with_result(chunker, text, **kwargs): the chunker's result,
\* or the chunker's own exception.
ChunkWithResult(chunker, text, params) ==
    IF params = "chunk_size=512"
    THEN Returned(<<"chunks", chunker, text>>)
    ELSE Raised("ChunkerError", <<"chunker failed", chunker, params>>, <<>>)

\* What chunk_text_async ends with, the name it looked up in the available
\* list and the chunker it dispatched to (None when it did neither).
ChunkEnd(out, looked_up, dispatched) ==
    [out |-> out, looked_up |-> looked_up, dispatched |-> dispatched]

\* chunk_text_async looking up the name it was given, 'auto' included.
ChunkTextAsyncLiteralAuto(text, chunker, params) ==
    LET avail == ListAvailableChunkers
    IN  IF chunker = "auto" /\ GetDefaultChunker = None
        THEN ChunkEnd(Raised("ValueError", <<"No available chunkers found for auto-selection">>, <<>>),
                      None, None)
        ELSE IF \A i \in DOMAIN avail : avail[i] # chunker
        THEN ChunkEnd(Raised("ValueError", <<"Chunker not available", chunker>>, avail),
                      chunker, None)
        ELSE IF IsBlank(text)
        THEN ChunkEnd(Raised("ValueError", <<"Text cannot be empty">>, <<>>), chunker, None)
        ELSE ChunkEnd(ChunkWithResult(chunker, text, params), chunker, chunker)

\* PDFStract.chunk_text_async (chunk_text, chunk and chunk_async run it):
\* 'auto' becomes the default chunker's name, then the name is looked up in
\* the available list, then the text is tested, then the chunker runs.
ChunkTextAsync(text, chunker, params) ==
    LET avail == ListAvailableChunkers
        name == IF chunker = "auto" THEN GetDefaultChunker ELSE chunker
    IN  IF chunker = "auto" /\ GetDefaultChunker = None
        THEN ChunkEnd(Raised("ValueError", <<"No available chunkers found for auto-selection">>, <<>>),
                      None, None)
        ELSE IF \A i \in DOMAIN avail : avail[i] # name
        THEN ChunkEnd(Raised("ValueError", <<"Chunker not available", name>>, avail),
                      name, None)
        ELSE IF IsBlank(text)
        THEN ChunkEnd(Raised("ValueError", <<"Text cannot be empty">>, <<>>), name, None)
        ELSE ChunkEnd(ChunkWithResult(name, text, params), name, name)

\* convert_chunk_async chunking whatever convert_async ended with, the text
\* of its error included.
ConvertChunkAsyncChunkingErrors(pdf_path, fstate, library, chunker, output_format, params) ==
    LET e == ConvertAsyncOutcome(pdf_path, fstate, library, output_format)
        c == ChunkTextAsync(IF e.kind = "return" THEN e.value ELSE e.msg, chunker, params)
    IN  IF c.out.kind = "raise"
        THEN c
        ELSE ChunkEnd(Returned(<<"extracted_content", e.value, "chunking_result", c.out.value>>),
                      c.looked_up, c.dispatched)

\* PDFStract.convert_chunk_async (convert_chunk runs it): convert_async, then
\* chunk_text_async on the extracted content; an exception of either leaves
\* the call as it is.
ConvertChunkAsync(pdf_path, fstate, library, chunker, output_format, params) ==
    LET e == ConvertAsyncOutcome(pdf_path, fstate, library, output_format)
    IN  IF e.kind = "raise"
        THEN ChunkEnd(e, None, None)
        ELSE LET c == ChunkTextAsync(e.value, chunker, params)
             IN  IF c.out.kind = "raise"
                 THEN c
                 ELSE ChunkEnd(Returned(<<"extracted_content", e.value,
                                          "chunking_result", c.out.value>>),
                               c.looked_up, c.dispatched)

\* ------------------------------------------------------ download lifecycle

DownloadStatus == {"NOT_REQUIRED", "PENDING", "DOWNLOADING", "READY", "FAILED"}

\* MinerUConverter.__init__
MinerUNew ==
    [_initialized |-> TRUE, _download_status |-> "NOT_REQUIRED",
     _download_error |-> None, _is_downloading |-> FALSE]

MinerUName(self) == "mineru"

MinerUAvailable(self) == MINERU_AVAILABLE

MinerUErrorMessage(self) ==
    IF ~MINERU_AVAILABLE
    THEN "Install with: pip install 'magic-pdf[full]'. Use Docker for full support."
    ELSE None

MinerURequiresDownload(self) == FALSE

\* download_status reporting that the model is still to be fetched.
MinerUDownloadStatusPending(self) == "PENDING"

\* MinerUConverter.download_status: the constant, not the private field.
MinerUDownloadStatus(self) == "NOT_REQUIRED"

MinerUDownloadError(self) == self._download_error

\* What a caller can read of the MinerU instance.
MinerUView(self) ==
    [name |-> MinerUName(self),
     available |-> MinerUAvailable(self),
     error_message |-> MinerUErrorMessage(self),
     requires_download |-> MinerURequiresDownload(self),
     download_status |-> MinerUDownloadStatus(self),
     download_error |-> MinerUDownloadError(self)]

\* prepare() marking a download as started before it returns.
MinerUPrepareStartingDownload(self) ==
    [self |-> [self EXCEPT !._is_downloading = TRUE, !._download_status = "DOWNLOADING"],
     out |-> MINERU_AVAILABLE]

\* MinerUConverter.prepare: the instance it leaves and what it returns.
MinerUPrepare(self) == [self |-> self, out |-> MINERU_AVAILABLE]

\* The callers of prepare() on the download-requiring converter.
Callers == 1..NumCallers

\* The lock's holder when nobody holds it.
NoHolder == 0

\* A download-requiring converter as constructed: nothing fetched yet, no
\* attempt made, its lock free.
LazyNew ==
    [download_status |-> "PENDING", download_error |-> None,
     attempts |-> <<>>, lock |-> NoHolder]

LazyAvailable(self) == self.download_status = "READY"

LazyView(self) ==
    [available |-> LazyAvailable(self),
     requires_download |-> TRUE,
     download_status |-> self.download_status,
     download_error |-> self.download_error]

\* The download attempts that have ended.
Completed(self) ==
    IF self.download_status = "DOWNLOADING"
    THEN Len(self.attempts) - 1
    ELSE Len(self.attempts)

IdleCaller ==
    [pc |-> "idle", entered |-> None, gen |-> 0, started |-> FALSE,
     observed |-> None, out |-> FALSE]

\* A lock that never makes anyone wait.
LockNeverHeld(self) == TRUE

\* The instance's mutual-exclusion primitive is free.
LockFree(self) == self.lock = NoHolder

\* ------------------------------------------------------- MinerU conversion

\* subprocess.run(..., timeout=600): the seconds the mineru command is given.
MinerUTimeout == 600

\* How the mineru command ends: exit code 0, another exit code, or not
\* within the timeout.
CliOutcomes == {"exit 0", "exit 1", "timeout"}

\* What the command left under out_dir: nothing, <stem>/<stem>.md,
\* <stem>.md, or only some other .md file.
Artifacts == {"none", "stem/stem.md", "stem.md", "other.md"}

\* The file the conversions are asked for.
MinerUInput == PathOf(FileNames[1])

\* _convert_sync returning what the command wrote when it timed out.
MinerUConvertSyncPartialOnTimeout(exists, cli, artifacts) ==
    IF ~exists
    THEN Raised("RuntimeError", <<"MinerU: Input file not found", PathName(MinerUInput)>>, <<>>)
    ELSE IF cli = "exit 1"
    THEN Raised("RuntimeError", <<"MinerU CLI failed", cli>>, <<>>)
    ELSE IF artifacts # "none"
    THEN Returned(<<"markdown of", artifacts>>)
    ELSE Raised("RuntimeError", <<"MinerU: No markdown output generated">>, <<>>)

\* _convert_sync without the test of the exit code.
MinerUConvertSyncIgnoringExitCode(exists, cli, artifacts) ==
    IF ~exists
    THEN Raised("RuntimeError", <<"MinerU: Input file not found", PathName(MinerUInput)>>, <<>>)
    ELSE IF cli = "timeout"
    THEN Raised("TimeoutExpired", <<"timed out after seconds", MinerUTimeout>>, <<>>)
    ELSE IF artifacts # "none"
    THEN Returned(<<"markdown of", artifacts>>)
    ELSE Raised("RuntimeError", <<"MinerU: No markdown output generated">>, <<>>)

\* MinerUConverter._convert_sync on an input that exists or not, with the
\* command ending as `cli` and leaving `artifacts`.
MinerUConvertSync(exists, cli, artifacts) ==
    IF ~exists
    THEN Raised("RuntimeError", <<"MinerU: Input file not found", PathName(MinerUInput)>>, <<>>)
    ELSE IF cli = "timeout"
    THEN Raised("TimeoutExpired", <<"timed out after seconds", MinerUTimeout>>, <<>>)
    ELSE IF cli # "exit 0"
    THEN Raised("RuntimeError", <<"MinerU CLI failed", cli>>, <<>>)
    ELSE IF artifacts \in {"stem/stem.md", "stem.md"}
    THEN Returned(<<"markdown of", artifacts>>)
    ELSE IF artifacts # "none"
    THEN Returned(<<"markdown of", artifacts>>)
    ELSE Raised("RuntimeError", <<"MinerU: No markdown output generated">>, <<>>)

\* MinerUConverter.convert_to_md
MinerUConvertToMd(exists, cli, artifacts) ==
    IF ~MinerUAvailable(mineru)
    THEN Raised("RuntimeError", <<"MinerU is not available">>, <<>>)
    ELSE LET r == MinerUConvertSync(exists, cli, artifacts)
         IN  IF r.kind = "raise"
             THEN Raised("RuntimeError", <<"MinerU conversion failed">> \o r.msg, <<>>)
             ELSE r

\* MinerUConverter.convert_to_json
MinerUConvertToJson(exists, cli, artifacts) ==
    IF ~MinerUAvailable(mineru)
    THEN Raised("RuntimeError", <<"MinerU is not available">>, <<>>)
    ELSE LET md == MinerUConvertToMd(exists, cli, artifacts)
         IN  IF md.kind = "raise"
             THEN md
             ELSE Returned(<<"content", md.value, "format", "markdown",
                             "library", MinerUName(mineru)>>)

\* MinerUConverter.convert_to_text: the markdown with its markup removed.
MinerUConvertToText(exists, cli, artifacts) ==
    LET md == MinerUConvertToMd(exists, cli, artifacts)
    IN  IF md.kind = "raise" THEN md ELSE Returned(<<"text of">> \o md.value)

\* The method of the MinerU instance that produces output_format.
MinerUMethod(output_format, exists, cli, artifacts) ==
    IF output_format = "markdown" THEN MinerUConvertToMd(exists, cli, artifacts)
    ELSE IF output_format = "json" THEN MinerUConvertToJson(exists, cli, artifacts)
    ELSE MinerUConvertToText(exists, cli, artifacts)

\* convert_async of the registry that PDFStract is built on, for the name
\* 'mineru': the instance is resolved and its method for the format awaited.
LazyFactoryConvert(output_format, exists, cli, artifacts) ==
    IF output_format \in OutputFormatValues
    THEN MinerUMethod(output_format, exists, cli, artifacts)
    ELSE Raised("ValueError", <<"Unsupported output format", output_format>>, <<>>)

\* PDFStract.convert(path, 'mineru', output_format) with a registry that
\* holds the MinerU instance.
ConvertMinerUOutcome(output_format, exists, cli, artifacts) ==
    IF ~exists
    THEN PdfFileNotFound(MinerUInput)
    ELSE WrapConversionFailed(LazyFactoryConvert(output_format, exists, cli, artifacts))

\* The helper convert_pdf of batch_convert on one file, with a registry that
\* holds the MinerU instance.
ConvertPdfHelperMinerU(output_format, exists, cli, artifacts) ==
    LET r == LazyFactoryConvert(output_format, exists, cli, artifacts)
    IN  IF r.kind = "return"
        THEN [filename |-> PathName(MinerUInput), status |-> "success",
              error |-> NoMsg, result |-> r.value]
        ELSE [filename |-> PathName(MinerUInput), status |-> "failed",
              error |-> r.msg, result |-> <<>>]

\* ------------------------------------------------------------ batch engine

NoAggregate == [success |-> 0, failed |-> 0, results |-> <<>>]

NoCall == [op |-> "none"]

Running == [op |-> "batch_convert", state |-> "running"]

NoArgs == [library |-> None, output_format |-> None, parallel_workers |-> 0]

\* A work item not yet submitted.  With its state and tuple are kept how many
\* times it was run and its rank among the items in order of completion.
NewFuture == [state |-> "new", tuple |-> <<>>, runs |-> 0, rank |-> 0]

\* BatchPrecheck resolving the library before it looks at the snapshot.
BatchPrecheckResolveFirst(pdf_directory, library, output_format, parallel_workers) ==
    IF pdf_directory # PdfDir
    THEN Raised("ValueError", <<"Directory not found", pdf_directory>>, <<>>)
    ELSE IF GetConverter(library) = None
    THEN LibraryNotAvailable(library)
    ELSE IF Sorted(Glob) = <<>>
    THEN Returned(<<>>)
    ELSE IF output_format \notin OutputFormatValues
    THEN Raised("ValueError", <<"is not a valid OutputFormat", output_format>>, <<>>)
    ELSE IF parallel_workers <= 0
    THEN Raised("ValueError", <<"max_workers must be greater than 0">>, <<>>)
    ELSE [kind |-> "dispatch", exc |-> None, msg |-> NoMsg, listed |-> <<>>, value |-> <<>>]

\* BatchPrecheck without the library lookup: an unresolved name goes on to the
\* pool and fails once per file inside the workers.
BatchPrecheckNoLookup(pdf_directory, library, output_format, parallel_workers) ==
    IF pdf_directory # PdfDir
    THEN Raised("ValueError", <<"Directory not found", pdf_directory>>, <<>>)
    ELSE IF Sorted(Glob) = <<>>
    THEN Returned(<<>>)
    ELSE IF output_format \notin OutputFormatValues
    THEN Raised("ValueError", <<"is not a valid OutputFormat", output_format>>, <<>>)
    ELSE IF parallel_workers <= 0
    THEN Raised("ValueError", <<"max_workers must be greater than 0">>, <<>>)
    ELSE [kind |-> "dispatch", exc |-> None, msg |-> NoMsg, listed |-> <<>>, value |-> <<>>]

\* What batch_convert does before it creates the pool: an outcome that ends
\* the call at once, or "dispatch" with the snapshot to fan out.
BatchPrecheck(pdf_directory, library, output_format, parallel_workers) ==
    IF pdf_directory # PdfDir
    THEN Raised("ValueError", <<"Directory not found", pdf_directory>>, <<>>)
    ELSE IF Sorted(Glob) = <<>>
    THEN Returned(<<>>)
    ELSE IF GetConverter(library) = None
    THEN LibraryNotAvailable(library)
    ELSE IF output_format \notin OutputFormatValues
    THEN Raised("ValueError", <<"is not a valid OutputFormat", output_format>>, <<>>)
    ELSE IF parallel_workers <= 0
    THEN Raised("ValueError", <<"max_workers must be greater than 0">>, <<>>)
    ELSE [kind |-> "dispatch", exc |-> None, msg |-> NoMsg, listed |-> <<>>, value |-> <<>>]

\* convert_pdf closing over the loop variable instead of taking its
\* argument: every work item converts the last file of the snapshot.
ConvertPdfHelperLateBinding(pdf_file, library, output_format_enum) ==
    LET last == pdf_files[Len(pdf_files)]
        r == FactoryConvert(library, last, FileState(last), output_format_enum)
    IN  IF r.kind = "return"
        THEN [filename |-> PathName(pdf_file), status |-> "success",
              error |-> NoMsg, result |-> r.value]
        ELSE [filename |-> PathName(pdf_file), status |-> "failed",
              error |-> r.msg, result |-> <<>>]

\* The helper convert_pdf a worker runs on one file: the registry call with
\* every exception caught into the returned tuple.
ConvertPdfHelper(pdf_file, library, output_format_enum) ==
    LET r == FactoryConvert(library, pdf_file, FileState(pdf_file), output_format_enum)
    IN  IF r.kind = "return"
        THEN [filename |-> PathName(pdf_file), status |-> "success",
              error |-> NoMsg, result |-> r.value]
        ELSE [filename |-> PathName(pdf_file), status |-> "failed",
              error |-> r.msg, result |-> <<>>]

\* Every item written under one and the same key.
SetItemSharedKey(map, filename, value) ==
    [k \in {"result"} |-> value]

\* results["results"][filename] = value
SetItem(map, filename, value) ==
    [k \in DOMAIN map \cup {filename} |-> IF k = filename THEN value ELSE map[k]]

\* Aggregate whose failure branch records nothing.
AggregateDroppingFailed(res, t) ==
    IF t.status = "success"
    THEN [success |-> res.success + 1,
          failed |-> res.failed,
          results |-> SetItem(res.results, t.filename, [is_error |-> FALSE, body |-> t.result])]
    ELSE res

\* The body of the collecting loop for one finished tuple.
Aggregate(res, t) ==
    IF t.status = "success"
    THEN [success |-> res.success + 1,
          failed |-> res.failed,
          results |-> SetItem(res.results, t.filename, [is_error |-> FALSE, body |-> t.result])]
    ELSE [success |-> res.success,
          failed |-> res.failed + 1,
          results |-> SetItem(res.results, t.filename, [is_error |-> TRUE, body |-> t.error])]

BatchRet(c, inputs, resolved, out, agg) ==
    [op |-> "batch_convert", state |-> "done",
     pdf_directory |-> c.pdf_directory, library |-> c.library,
     output_format |-> c.output_format, parallel_workers |-> c.parallel_workers,
     inputs |-> inputs, resolved |-> resolved, out |-> out, agg |-> agg]

\* ------------------------------------------------------------------- state

InitRegistry ==
    /\ available = Installed
    /\ user_libraries \in [Known -> {0, 1}]
    /\ enabled_read = get_enabled_libraries
    /\ converters = RegisterDefaultConverters({}, get_enabled_libraries)
    /\ dir = [f \in Files |-> "absent"]
    /\ ret = NoCall
    /\ pc = "idle"
    /\ pdf_files = <<>>
    /\ call = NoArgs
    /\ futures = <<>>
    /\ idx = 0
    /\ results = NoAggregate

\* No thread is inside refresh_converters.
NoRefresh == [pc |-> "idle", old |-> {}, i |-> 0]

\* The converter instances as constructed.
InitBackends ==
    /\ mineru = MinerUNew
    /\ lazy = LazyNew
    /\ callers = [c \in Callers |-> IdleCaller]
    /\ refresher = NoRefresh

\* The library as constructed, with every chunker kind available and the
\* mineru command installed.
Init ==
    /\ InitRegistry
    /\ chunkers = KnownChunkers
    /\ MINERU_AVAILABLE = TRUE
    /\ InitBackends

\* ----------------------------------------------------------------- actions

\* The file system gains a PDF, convertible or corrupt.
AddFile(f, content) ==
    /\ ret \in {NoCall, Running}
    /\ dir[f] = "absent"
    /\ dir' = [dir EXCEPT ![f] = content]
    /\ UNCHANGED <<extVars, registryVars, ret, batchVars>>

\* DatabaseService.set_library_status
SetLibraryStatus(library_name, is_enabled) ==
    /\ ret = NoCall
    /\ user_libraries' = Upsert(user_libraries, library_name, is_enabled)
    /\ UNCHANGED <<extVars, available, converters, enabled_read, dir, ret, batchVars>>

\* refresh_converters registering into the registry as it is.
RefreshConvertersWithoutClear ==
    /\ ret = NoCall
    /\ enabled_read' = get_enabled_libraries
    /\ converters' = RegisterDefaultConverters(converters, get_enabled_libraries)
    /\ UNCHANGED <<extVars, available, user_libraries, dir, ret, batchVars>>

\* OCRFactory.refresh_converters: empty the registry, then register from
\* the table as it is now.
RefreshConverters ==
    /\ ret = NoCall
    /\ enabled_read' = get_enabled_libraries
    /\ converters' = RegisterDefaultConverters({}, get_enabled_libraries)
    /\ UNCHANGED <<extVars, available, user_libraries, dir, ret, batchVars>>

\* PDFStract.list_libraries
ListLibraries ==
    /\ ret = NoCall
    /\ ret' = [op |-> "list_libraries", out |-> ListAllConverters]
    /\ UNCHANGED <<extVars, registryVars, dir, batchVars>>

\* PDFStract.convert
Convert(pdf_path, library, output_format) ==
    /\ ret = NoCall
    /\ ret' = [op |-> "convert", pdf_path |-> pdf_path, library |-> library,
               output_format |-> output_format,
               resolved |-> GetConverter(library) # None,
               fstate |-> FileState(pdf_path),
               out |-> ConvertOutcome(pdf_path, FileState(pdf_path), library, output_format)]
    /\ UNCHANGED <<extVars, registryVars, dir, batchVars>>

\* PDFStract.convert_async, awaited to completion
ConvertAsync(pdf_path, library, output_format) ==
    /\ ret = NoCall
    /\ ret' = [op |-> "convert_async", pdf_path |-> pdf_path, library |-> library,
               output_format |-> output_format,
               resolved |-> GetConverter(library) # None,
               fstate |-> FileState(pdf_path),
               out |-> ConvertAsyncOutcome(pdf_path, FileState(pdf_path), library, output_format)]
    /\ UNCHANGED <<extVars, registryVars, dir, batchVars>>

\* PDFStract.batch_convert up to the creation of the pool.
BatchConvert(pdf_directory, library, output_format, parallel_workers) ==
    LET c == [pdf_directory |-> pdf_directory, library |-> library,
              output_format |-> output_format, parallel_workers |-> parallel_workers]
        pre == BatchPrecheck(pdf_directory, library, output_format, parallel_workers)
        snapshot == IF pdf_directory = PdfDir THEN Sorted(Glob) ELSE <<>>
    IN  /\ ret = NoCall
        /\ IF pre.kind = "dispatch"
           THEN /\ pc' = "submit"
                /\ pdf_files' = snapshot
                /\ call' = [library |-> library, output_format |-> output_format,
                            parallel_workers |-> parallel_workers]
                /\ futures' = [i \in 1..Len(snapshot) |-> NewFuture]
                /\ idx' = 1
                /\ results' = NoAggregate
                /\ ret' = Running
           ELSE /\ ret' = BatchRet(c, snapshot, GetConverter(library) # None, pre, NoAggregate)
                /\ UNCHANGED batchVars
        /\ UNCHANGED <<extVars, registryVars, dir>>

\* futures = [executor.submit(convert_pdf, pdf) for pdf in pdf_files], one
\* submit at a time.
Submit ==
    /\ pc = "submit"
    /\ futures' = [futures EXCEPT ![idx].state = "queued"]
    /\ IF idx = Len(pdf_files)
       THEN pc' = "collect" /\ idx' = 1
       ELSE pc' = pc /\ idx' = idx + 1
    /\ UNCHANGED <<extVars, registryVars, dir, ret, pdf_files, call, results>>

\* A pool that starts a thread for every queued work item.
WorkerStartUnbounded(i) ==
    /\ pc \in {"submit", "collect"}
    /\ futures[i].state = "queued"
    /\ futures' = [futures EXCEPT ![i].state = "running"]
    /\ UNCHANGED <<extVars, registryVars, dir, ret, pc, pdf_files, call, idx, results>>

\* A pool thread takes the oldest queued work item; the pool has at most
\* max_workers threads.
WorkerStart(i) ==
    /\ pc \in {"submit", "collect"}
    /\ futures[i].state = "queued"
    /\ \A j \in 1..(i - 1) : futures[j].state # "queued"
    /\ Cardinality({j \in DOMAIN futures : futures[j].state = "running"}) < call.parallel_workers
    /\ futures' = [futures EXCEPT ![i].state = "running"]
    /\ UNCHANGED <<extVars, registryVars, dir, ret, pc, pdf_files, call, idx, results>>

\* The work item ends: convert_pdf returned its tuple into the future.
WorkerFinish(i) ==
    /\ pc \in {"submit", "collect"}
    /\ futures[i].state = "running"
    /\ futures' = [futures EXCEPT ![i] =
                     [state |-> "done",
                      tuple |-> ConvertPdfHelper(pdf_files[i], call.library, call.output_format),
                      runs |-> futures[i].runs + 1,
                      rank |-> 1 + Cardinality({j \in DOMAIN futures :
                                                   futures[j].state = "done"})]]
    /\ UNCHANGED <<extVars, registryVars, dir, ret, pc, pdf_files, call, idx, results>>

\* The loop over the futures not waiting: an item that is not done yet is
\* passed over.
CollectSkippingUnfinished ==
    /\ pc = "collect"
    /\ results' = IF futures[idx].state = "done"
                  THEN Aggregate(results, futures[idx].tuple)
                  ELSE results
    /\ IF idx = Len(pdf_files)
       THEN pc' = "return" /\ idx' = idx
       ELSE pc' = pc /\ idx' = idx + 1
    /\ UNCHANGED <<extVars, registryVars, dir, ret, pdf_files, call, futures>>

\* for future in futures: future.result() blocks until that item is done,
\* then the tuple is counted.
Collect ==
    /\ pc = "collect"
    /\ futures[idx].state = "done"
    /\ results' = Aggregate(results, futures[idx].tuple)
    /\ IF idx = Len(pdf_files)
       THEN pc' = "return" /\ idx' = idx
       ELSE pc' = pc /\ idx' = idx + 1
    /\ UNCHANGED <<extVars, registryVars, dir, ret, pdf_files, call, futures>>

\* The with block ends (every work item is done) and results is returned.
BatchReturn ==
    /\ pc = "return"
    /\ ret' = BatchRet([pdf_directory |-> PdfDir] @@ call, pdf_files,
                       GetConverter(call.library) # None, Returned(<<>>), results)
    /\ pc' = "idle"
    /\ pdf_files' = <<>>
    /\ call' = NoArgs
    /\ futures' = <<>>
    /\ idx' = 0
    /\ results' = NoAggregate
    /\ UNCHANGED <<extVars, registryVars, dir>>

\* The caller takes what the call returned or raised; the next call can
\* then be made.
Receive ==
    /\ ret \notin {NoCall, Running}
    /\ ret' = NoCall
    /\ UNCHANGED <<extVars, registryVars, dir, batchVars>>

Next ==
    \/ \E f \in Files, content \in {"good", "corrupt"} : AddFile(f, content)
    \/ \E n \in Known, b \in BOOLEAN : SetLibraryStatus(n, b)
    \/ RefreshConverters
    \/ ListLibraries
    \/ \E p \in PathArgs, l \in Names, f \in FormatArgs : Convert(p, l, f)
    \/ \E p \in PathArgs, l \in Names, f \in FormatArgs : ConvertAsync(p, l, f)
    \/ \E d \in DirArgs, l \in Names, f \in FormatArgs, w \in 0..MaxWorkers :
          BatchConvert(d, l, f, w)
    \/ Submit
    \/ \E i \in DOMAIN futures : WorkerStart(i)
    \/ \E i \in DOMAIN futures : WorkerFinish(i)
    \/ Collect
    \/ BatchReturn
    \/ Receive

Spec == Init /\ [][Next]_vars

\* ------------------------------------------------- chunking specification

\* The library as constructed, on a machine where any of the chunker kinds
\* may be missing its dependency.
InitChunk ==
    /\ InitRegistry
    /\ chunkers \in SUBSET KnownChunkers
    /\ MINERU_AVAILABLE = TRUE
    /\ InitBackends

\* chunk_text / chunk_text_async / chunk / chunk_async
ChunkText(text, chunker, params) ==
    LET c == ChunkTextAsync(text, chunker, params)
    IN  /\ ret = NoCall
        /\ ret' = [op |-> "chunk_text", text |-> text, chunker |-> chunker, params |-> params,
                   out |-> c.out, looked_up |-> c.looked_up, dispatched |-> c.dispatched]
        /\ UNCHANGED <<extVars, registryVars, dir, batchVars>>

\* convert_chunk / convert_chunk_async
ConvertChunk(pdf_path, library, chunker, output_format, params) ==
    LET c == ConvertChunkAsync(pdf_path, FileState(pdf_path), library, chunker,
                               output_format, params)
    IN  /\ ret = NoCall
        /\ ret' = [op |-> "convert_chunk", pdf_path |-> pdf_path, library |-> library,
                   chunker |-> chunker, output_format |-> output_format, params |-> params,
                   fstate |-> FileState(pdf_path),
                   out |-> c.out, looked_up |-> c.looked_up, dispatched |-> c.dispatched]
        /\ UNCHANGED <<extVars, registryVars, dir, batchVars>>

NextChunk ==
    \/ \E f \in Files, content \in {"good", "corrupt"} : AddFile(f, content)
    \/ \E t \in TextArgs, c \in ChunkerArgs, k \in ParamArgs : ChunkText(t, c, k)
    \/ \E p \in PathArgs, l \in Names, c \in ChunkerArgs, f \in FormatArgs, k \in ParamArgs :
          ConvertChunk(p, l, c, f, k)
    \/ Receive

SpecChunk == InitChunk /\ [][NextChunk]_vars

\* ------------------------------------------------ lifecycle specification

\* The converter instances as constructed, on a machine with or without the
\* mineru command.
InitLifecycle ==
    /\ InitRegistry
    /\ chunkers = KnownChunkers
    /\ MINERU_AVAILABLE \in BOOLEAN
    /\ InitBackends

libraryVars == <<available, user_libraries, converters, enabled_read, dir,
                 pc, pdf_files, call, futures, idx, results, chunkers, refresher>>

\* await mineru.prepare()
PrepareMinerU ==
    LET r == MinerUPrepare(mineru)
    IN  /\ ret = NoCall
        /\ mineru' = r.self
        /\ ret' = [op |-> "prepare", before |-> MinerUView(mineru),
                   after |-> MinerUView(r.self), fields_before |-> mineru,
                   fields_after |-> r.self, out |-> r.out]
        /\ UNCHANGED <<libraryVars, MINERU_AVAILABLE, lazy, callers>>

\* Caller c calls lazy.prepare(): it notes the state it finds and goes for
\* the instance's lock.  A retry of a failed download is a new call.
PrepareCall(c) ==
    /\ callers[c].pc = "idle"
    /\ lazy.download_status = "FAILED" => Len(lazy.attempts) < MaxDownloads
    /\ callers' = [callers EXCEPT ![c] =
                      [IdleCaller EXCEPT !.pc = "lock",
                                         !.entered = lazy.download_status,
                                         !.gen = Completed(lazy)]]
    /\ UNCHANGED <<libraryVars, ret, MINERU_AVAILABLE, mineru, lazy>>

\* Caller c gets the lock and looks at the state again.  An attempt that
\* ended since it called is the attempt it was waiting for: it takes that
\* attempt's outcome.  A READY converter needs nothing.  Otherwise it starts
\* the download and keeps the lock while the download runs.
PrepareEnter(c) ==
    /\ callers[c].pc = "lock"
    /\ LockFree(lazy)
    /\ IF Completed(lazy) > callers[c].gen
       THEN /\ callers' = [callers EXCEPT ![c].pc = "returned",
                                          ![c].observed = lazy.attempts[callers[c].gen + 1],
                                          ![c].out = (lazy.attempts[callers[c].gen + 1] = "READY")]
            /\ lazy' = lazy
       ELSE IF lazy.download_status = "READY"
       THEN /\ callers' = [callers EXCEPT ![c].pc = "returned",
                                          ![c].observed = "READY",
                                          ![c].out = LazyAvailable(lazy)]
            /\ lazy' = lazy
       ELSE /\ callers' = [callers EXCEPT ![c].pc = "downloading", ![c].started = TRUE]
            /\ lazy' = [lazy EXCEPT !.download_status = "DOWNLOADING",
                                    !.download_error = None,
                                    !.attempts = Append(@, "DOWNLOADING"),
                                    !.lock = c]
    /\ UNCHANGED <<libraryVars, ret, MINERU_AVAILABLE, mineru>>

\* The download caller c started ends, well or not; c records the outcome,
\* releases the lock and returns.
DownloadEnd(c, ok) ==
    LET end == IF ok THEN "READY" ELSE "FAILED"
    IN  /\ callers[c].pc = "downloading"
        /\ lazy' = [lazy EXCEPT !.download_status = end,
                                !.download_error = IF ok THEN None ELSE "download failed",
                                !.attempts = [@ EXCEPT ![Len(@)] = end],
                                !.lock = IF @ = c THEN NoHolder ELSE @]
        /\ callers' = [callers EXCEPT ![c].pc = "returned",
                                      ![c].observed = end,
                                      ![c].out = ok]
        /\ UNCHANGED <<libraryVars, ret, MINERU_AVAILABLE, mineru>>

\* Caller c is done with what prepare() returned and may call again.
PrepareDone(c) ==
    /\ callers[c].pc = "returned"
    /\ callers' = [callers EXCEPT ![c] = IdleCaller]
    /\ UNCHANGED <<libraryVars, ret, MINERU_AVAILABLE, mineru, lazy>>

NextLifecycle ==
    \/ PrepareMinerU
    \/ ListLibraries
    \/ Receive
    \/ \E c \in Callers : PrepareCall(c)
    \/ \E c \in Callers : PrepareEnter(c)
    \/ \E c \in Callers, ok \in BOOLEAN : DownloadEnd(c, ok)
    \/ \E c \in Callers : PrepareDone(c)

SpecLifecycle == InitLifecycle /\ [][NextLifecycle]_vars

\* ------------------------------------- refresh racing the other threads

raceVars == <<chunkers, MINERU_AVAILABLE, mineru, lazy, callers>>

\* refresh_converters, first statement: self._converters = {}
RefreshClear ==
    /\ refresher.pc = "idle"
    /\ refresher' = [pc |-> "read", old |-> converters, i |-> 0]
    /\ converters' = {}
    /\ UNCHANGED <<raceVars, available, user_libraries, enabled_read, dir, ret, batchVars>>

\* _register_default_converters reads the enabled set and returns at once
\* when it is empty.
RefreshRead ==
    /\ refresher.pc = "read"
    /\ enabled_read' = get_enabled_libraries
    /\ refresher' = IF Cardinality(get_enabled_libraries) = 0
                    THEN NoRefresh
                    ELSE [refresher EXCEPT !.pc = "loop", !.i = 1]
    /\ UNCHANGED <<raceVars, available, user_libraries, converters, dir, ret, batchVars>>

\* One iteration of the loop over all_converters.
RefreshRegister ==
    /\ refresher.pc = "loop"
    /\ converters' = RegisterLoop(converters, enabled_read \cap {KnownSeq[refresher.i]})
    /\ refresher' = IF refresher.i = NumKnown
                    THEN NoRefresh
                    ELSE [refresher EXCEPT !.i = @ + 1]
    /\ UNCHANGED <<raceVars, available, user_libraries, enabled_read, dir, ret, batchVars>>

\* set_library_status called while no refresh is under way.
SetLibraryStatusBetweenRefreshes(library_name, is_enabled) ==
    /\ refresher.pc = "idle"
    /\ SetLibraryStatus(library_name, is_enabled)

\* PDFStract.list_available_libraries, from a thread other than the one
\* refreshing.  With the list it returned are recorded the registry as it
\* was before the refresh under way (if any) and the registry a build from
\* the table makes.
ListAvailableLibraries ==
    /\ ret = NoCall
    /\ ret' = [op |-> "list_available_libraries",
               out |-> ListAvailableConverters,
               old |-> IF refresher.pc = "idle" THEN converters ELSE refresher.old,
               new |-> RegisterDefaultConverters({}, get_enabled_libraries),
               refreshing |-> refresher.pc # "idle"]
    /\ UNCHANGED <<extVars, registryVars, dir, batchVars>>

NextRace ==
    \/ \E f \in Files, content \in {"good", "corrupt"} : AddFile(f, content)
    \/ \E n \in Known, b \in BOOLEAN : SetLibraryStatusBetweenRefreshes(n, b)
    \/ RefreshClear
    \/ RefreshRead
    \/ RefreshRegister
    \/ ListAvailableLibraries
    \/ \E l \in Known, w \in 1..MaxWorkers : BatchConvert(PdfDir, l, "markdown", w)
    \/ Submit
    \/ \E i \in DOMAIN futures : WorkerStart(i)
    \/ \E i \in DOMAIN futures : WorkerFinish(i)
    \/ Collect
    \/ BatchReturn
    \/ Receive

SpecRace == Init /\ [][NextRace]_vars

\* ------------------------------------------------ batch under fair scheduling

\* The batch engine alone: files appear, batches are started, run and
\* returned.
NextBatch ==
    \/ \E f \in Files, content \in {"good", "corrupt"} : AddFile(f, content)
    \/ \E d \in DirArgs, l \in Names, f \in FormatArgs, w \in 0..MaxWorkers :
          BatchConvert(d, l, f, w)
    \/ Submit
    \/ \E i \in DOMAIN futures : WorkerStart(i)
    \/ \E i \in DOMAIN futures : WorkerFinish(i)
    \/ Collect
    \/ BatchReturn
    \/ Receive

\* The main thread keeps running its loops, the pool starts a queued item
\* when a thread is free, and every backend call ends.
BatchFairness ==
    /\ WF_vars(Submit)
    /\ WF_vars(\E i \in DOMAIN futures : WorkerStart(i))
    /\ WF_vars(\E i \in DOMAIN futures : WorkerFinish(i))
    /\ WF_vars(Collect)
    /\ WF_vars(BatchReturn)

SpecFair == Init /\ [][NextBatch]_vars /\ BatchFairness

\* ---------------------------------------------- MinerU conversion calls

\* A conversion method of the MinerU instance, called and awaited.
MinerUConvert(output_format, exists, cli, artifacts) ==
    /\ ret = NoCall
    /\ ret' = [op |-> "mineru_convert", output_format |-> output_format,
               exists |-> exists, cli |-> cli, artifacts |-> artifacts,
               out |-> MinerUMethod(output_format, exists, cli, artifacts)]
    /\ UNCHANGED <<extVars, registryVars, dir, batchVars>>

\* PDFStract.convert with library 'mineru'
ConvertMinerU(output_format, exists, cli, artifacts) ==
    /\ ret = NoCall
    /\ ret' = [op |-> "convert_mineru", output_format |-> output_format,
               exists |-> exists, cli |-> cli, artifacts |-> artifacts,
               out |-> ConvertMinerUOutcome(output_format, exists, cli, artifacts)]
    /\ UNCHANGED <<extVars, registryVars, dir, batchVars>>

\* One work item of a batch_convert with library 'mineru', with the entry
\* the batch records for it.
BatchItemMinerU(output_format, exists, cli, artifacts) ==
    LET t == ConvertPdfHelperMinerU(output_format, exists, cli, artifacts)
    IN  /\ ret = NoCall
        /\ ret' = [op |-> "batch_item_mineru", output_format |-> output_format,
                   exists |-> exists, cli |-> cli, artifacts |-> artifacts,
                   tuple |-> t, agg |-> Aggregate(NoAggregate, t)]
        /\ UNCHANGED <<extVars, registryVars, dir, batchVars>>

NextMinerU ==
    \/ \E f \in OutputFormatValues, e \in BOOLEAN, c \in CliOutcomes, a \in Artifacts :
          MinerUConvert(f, e, c, a)
    \/ \E f \in OutputFormatValues, e \in BOOLEAN, c \in CliOutcomes, a \in Artifacts :
          ConvertMinerU(f, e, c, a)
    \/ \E f \in OutputFormatValues, e \in BOOLEAN, c \in CliOutcomes, a \in Artifacts :
          BatchItemMinerU(f, e, c, a)
    \/ Receive

SpecMinerU == InitLifecycle /\ [][NextMinerU]_vars

\* ------------------------------------- registry with a failing table read

\* OCRFactory(db_service) replacing the factory in use.  A constructor that
\* raises yields no instance and the factory in use stays.
ConstructFactory(db_raises) ==
    LET r == RegisterDefaultConvertersOutcome({}, GetEnabledLibrariesOutcome(db_raises))
    IN  /\ ret = NoCall
        /\ converters' = IF r.out.kind = "raise" THEN converters ELSE r.regs
        /\ enabled_read' = IF r.out.kind = "raise" THEN enabled_read
                                                   ELSE get_enabled_libraries
        /\ ret' = [op |-> "OCRFactory", db_raises |-> db_raises,
                   logged |-> r.logged, out |-> r.out]
        /\ UNCHANGED <<extVars, available, user_libraries, dir, batchVars>>

\* refresh_converters with a read of the table that can fail: the registry
\* is emptied before the read.
RefreshConvertersRead(db_raises) ==
    LET r == RegisterDefaultConvertersOutcome({}, GetEnabledLibrariesOutcome(db_raises))
    IN  /\ ret = NoCall
        /\ converters' = r.regs
        /\ enabled_read' = IF r.out.kind = "raise" THEN {} ELSE get_enabled_libraries
        /\ ret' = [op |-> "refresh_converters", db_raises |-> db_raises,
                   logged |-> r.logged, out |-> r.out]
        /\ UNCHANGED <<extVars, available, user_libraries, dir, batchVars>>

\* list_all_converters with a read of the table that can fail.
ListAllConvertersRead(db_raises) ==
    LET r == ListAllConvertersOutcome(GetEnabledLibrariesOutcome(db_raises))
    IN  /\ ret = NoCall
        /\ ret' = [op |-> "list_all_converters", db_raises |-> db_raises,
                   logged |-> r.logged, out |-> r.out]
        /\ UNCHANGED <<extVars, registryVars, dir, batchVars>>

NextRead ==
    \/ \E n \in Known, b \in BOOLEAN : SetLibraryStatus(n, b)
    \/ \E d \in BOOLEAN : ConstructFactory(d)
    \/ \E d \in BOOLEAN : RefreshConvertersRead(d)
    \/ \E d \in BOOLEAN : ListAllConvertersRead(d)
    \/ \E f \in Files, content \in {"good", "corrupt"} : AddFile(f, content)
    \/ \E p \in PathArgs, l \in Names, f \in FormatArgs : Convert(p, l, f)
    \/ Receive

SpecRead == Init /\ [][NextRead]_vars

\* ------------------------------------------------------------------ claims

Range(seq) == {seq[i] : i \in DOMAIN seq}

BatchDone == ret.op = "batch_convert" /\ ret.state = "done"

InputNames(inputs) == {PathName(inputs[i]) : i \in DOMAIN inputs}

\* C1: every batch_convert that returns has success + failed equal to the
\* number of files enumerated before dispatch, and results holds exactly one
\* entry per enumerated file name, whatever the interleaving of the workers.
C1_CountsMatchInputs ==
    (BatchDone /\ ret.out.kind = "return") =>
        /\ ret.agg.success + ret.agg.failed = Len(ret.inputs)
        /\ DOMAIN ret.agg.results = InputNames(ret.inputs)
        /\ Cardinality(DOMAIN ret.agg.results) = Len(ret.inputs)

C1_Witness ==
    /\ BatchDone
    /\ ret.out.kind = "return"
    /\ Len(ret.inputs) >= 2
    /\ ret.parallel_workers >= 2
    /\ ret.agg.success >= 1
    /\ ret.agg.failed >= 1

\* The batches that reach the pool: an existing directory with at least one
\* PDF, a library that resolves, a valid format and a positive worker count.
Dispatched ==
    /\ BatchDone
    /\ ret.pdf_directory = PdfDir
    /\ ret.inputs # <<>>
    /\ ret.resolved
    /\ ret.output_format \in OutputFormatValues
    /\ ret.parallel_workers > 0

\* The inputs on which the backend call fails.
FailingInputs(inputs) == {i \in DOMAIN inputs : FileState(inputs[i]) = "corrupt"}

\* C2: in a dispatched batch whose backend fails on the subset F of the
\* inputs, the call returns (it is never aborted), failed = |F|,
\* success = len(inputs) - |F|, every input outside F maps to its own
\* content and every input in F to {error: its own message}.
C2_FailuresIsolated ==
    (Dispatched /\ SupportsFormat(ret.library, ret.output_format)) =>
        LET F == FailingInputs(ret.inputs)
        IN  /\ ret.out.kind = "return"
            /\ ret.agg.failed = Cardinality(F)
            /\ ret.agg.success = Len(ret.inputs) - Cardinality(F)
            /\ \A i \in DOMAIN ret.inputs :
                  ret.agg.results[PathName(ret.inputs[i])] =
                     IF i \in F
                     THEN [is_error |-> TRUE,
                           body |-> BackendCall(ret.library, ret.inputs[i], "corrupt",
                                                ret.output_format).msg]
                     ELSE [is_error |-> FALSE,
                           body |-> BackendCall(ret.library, ret.inputs[i], "good",
                                                ret.output_format).value]

C2_Witness ==
    /\ Dispatched
    /\ SupportsFormat(ret.library, ret.output_format)
    /\ Len(ret.inputs) >= 2
    /\ FailingInputs(ret.inputs) = {1}
    /\ ret.agg.failed = 1
    /\ ret.agg.success = Len(ret.inputs) - 1

IsLibraryNotAvailable(out) ==
    out.kind = "raise" /\ out.exc = "ValueError" /\ out.msg[1] = "Library not available"

IsPdfFileNotFound(out) ==
    out.kind = "raise" /\ out.exc = "FileNotFoundError"

IsConversionFailed(out) ==
    out.kind = "raise" /\ out.exc = "ValueError" /\ out.msg[1] = "Conversion failed"

\* C3: convert with a library that does not resolve and a file that does not
\* exist raises the library-not-available ValueError, never FileNotFoundError.
C3_LibraryCheckedFirst ==
    (ret.op = "convert" /\ ~ret.resolved /\ ret.fstate = "absent") =>
        IsLibraryNotAvailable(ret.out) /\ ~IsPdfFileNotFound(ret.out)

C3_Witness ==
    /\ ret.op = "convert"
    /\ ~ret.resolved
    /\ ret.fstate = "absent"
    /\ IsLibraryNotAvailable(ret.out)

\* The same content, or an error of the same kind.
SameOutcome(a, b) ==
    /\ a.kind = b.kind
    /\ a.exc = b.exc
    /\ a.value = b.value
    /\ (a.kind = "raise" => a.msg[1] = b.msg[1])

\* C4: for every combination of library, file and format, convert and
\* convert_async end the same way: each call's outcome is the outcome the
\* other entry point has on the same arguments in the same state.
C4_SyncAsyncSame ==
    /\ ret.op = "convert" =>
          SameOutcome(ret.out, ConvertAsyncOutcome(ret.pdf_path, ret.fstate,
                                                   ret.library, ret.output_format))
    /\ ret.op = "convert_async" =>
          SameOutcome(ret.out, ConvertOutcome(ret.pdf_path, ret.fstate,
                                              ret.library, ret.output_format))

\* C5: a registry built from an empty enabled set exposes every known
\* converter whose dependency is present.
C5_EmptyEnabledExposesAll ==
    (enabled_read = {}) =>
        \A n \in Known :
            n \in available =>
                GetConverter(n) # None /\ n \in Range(ListAvailableConverters)

ConvertOnUnavailable ==
    /\ ret.op = "convert"
    /\ ret.library \in Known
    /\ ret.library \in enabled_read
    /\ ret.library \notin available

C8_DistinctErrorTexts ==
    ret.op = "list_libraries" =>
        \A i, j \in DOMAIN ret.out :
            (/\ ~ret.out[i].enabled
             /\ ret.out[j].enabled
             /\ ret.out[j].name \notin available)
                => ret.out[i].error # ret.out[j].error

EmptyBatch ==
    /\ BatchDone
    /\ ret.pdf_directory = PdfDir
    /\ ret.inputs = <<>>

C10_EmptyDirectoryRaises ==
    EmptyBatch => (ret.out.kind = "raise" /\ ret.out.exc = "ValueError")

\* The batches over a directory with at least one PDF whose library does not
\* resolve.
UnresolvedBatch ==
    /\ BatchDone
    /\ ret.pdf_directory = PdfDir
    /\ ret.inputs # <<>>
    /\ ~ret.resolved

\* C11: batch_convert over a non-empty directory with a library that does not
\* resolve raises the library-not-available ValueError as a whole, before the
\* pool exists: no work item was created or run, and no count or per-file
\* result is produced.
C11_UnresolvedBatchFailsWhole ==
    UnresolvedBatch =>
        /\ IsLibraryNotAvailable(ret.out)
        /\ ret.agg = NoAggregate
        /\ pc = "idle"
        /\ futures = <<>>

C11_Witness ==
    /\ UnresolvedBatch
    /\ Len(ret.inputs) >= 2
    /\ ret.output_format \in OutputFormatValues
    /\ ret.parallel_workers > 0
    /\ IsLibraryNotAvailable(ret.out)

\* The single-file calls, sync or async.
SingleConvert == ret.op \in {"convert", "convert_async"}

\* The single-file calls that reach the backend and find it failing: the
\* library resolves, the file exists but cannot be converted, and the format
\* is one the converter supports.
BackendFails ==
    /\ SingleConvert
    /\ ret.resolved
    /\ ret.fstate = "corrupt"
    /\ ret.output_format \in OutputFormatValues
    /\ SupportsFormat(ret.library, ret.output_format)

\* C12: when the backend raises during convert or convert_async, the caller
\* gets the conversion-failed ValueError carrying the backend's own message,
\* and never the backend's exception itself.
C12_BackendFailureWrapped ==
    BackendFails =>
        LET e == BackendCall(ret.library, ret.pdf_path, "corrupt", ret.output_format)
        IN  /\ IsConversionFailed(ret.out)
            /\ ret.out.exc # e.exc
            /\ ret.out.msg = <<"Conversion failed">> \o e.msg

C12_Witness ==
    /\ BackendFails
    /\ ret.op = "convert_async"
    /\ IsConversionFailed(ret.out)
    /\ Len(ret.out.msg) > 1

\* The single-file calls asking a resolved converter, on an existing file,
\* for an output format that exists but that the converter does not support.
UnsupportedFormatCall ==
    /\ SingleConvert
    /\ ret.resolved
    /\ ret.fstate # "absent"
    /\ ret.output_format \in OutputFormatValues
    /\ ~SupportsFormat(ret.library, ret.output_format)

\* C13: convert with a format the resolved converter does not support raises
\* an unsupported-format error that is not the conversion-failed error raised
\* for the backend's faults.
C13_UnsupportedFormatDistinct ==
    UnsupportedFormatCall =>
        /\ ret.out.kind = "raise"
        /\ ~IsConversionFailed(ret.out)

\* The chunk_text calls that reach the chunker and find it raising.
ChunkerFails ==
    /\ ret.op = "chunk_text"
    /\ ret.dispatched # None
    /\ ChunkWithResult(ret.dispatched, ret.text, ret.params).kind = "raise"

IsChunkingFailed(out) ==
    out.kind = "raise" /\ out.exc = "ValueError" /\ out.msg[1] = "Chunking failed"

\* C14: when the chunker raises while chunk_text dispatches to it, the caller
\* gets a chunking-failed error wrapping the chunker's exception, and never
\* the chunker's exception itself.
C14_ChunkerFailureWrapped ==
    ChunkerFails =>
        /\ IsChunkingFailed(ret.out)
        /\ ret.out # ChunkWithResult(ret.dispatched, ret.text, ret.params)

\* The chunk_text calls naming a chunker kind that is not available, with a
\* text that is empty or blank.
BlankTextForUnavailable ==
    /\ ret.op = "chunk_text"
    /\ ret.chunker \in KnownChunkers
    /\ ret.chunker \notin chunkers
    /\ IsBlank(ret.text)

\* C15: chunk_text tests the text before the chunker's availability: for a
\* chunker kind that is not available and a blank text it raises the
\* empty-text error, not the chunker-not-available error.
C15_EmptyTextBeforeAvailability ==
    BlankTextForUnavailable =>
        /\ ret.out.kind = "raise"
        /\ ret.out.msg[1] = "Text cannot be empty"

AutoChunk == ret.op = "chunk_text" /\ ret.chunker = "auto"

\* C16: chunk_text with 'auto' raises the no-chunker error without looking
\* any name up or dispatching when no chunker is available; when one is, the
\* name it looks up and the chunker it dispatches to are the factory's
\* default chunker: the name 'auto' itself is never looked up.
C16_AutoUsesDefaultChunker ==
    AutoChunk =>
        /\ ret.looked_up # "auto"
        /\ ret.dispatched # "auto"
        /\ chunkers = {} =>
              /\ ret.out = Raised("ValueError",
                                  <<"No available chunkers found for auto-selection">>, <<>>)
              /\ ret.looked_up = None
              /\ ret.dispatched = None
        /\ chunkers # {} =>
              /\ ret.looked_up = GetDefaultChunker
              /\ ret.looked_up \in chunkers
              /\ ~IsBlank(ret.text) => ret.dispatched = GetDefaultChunker
              /\ IsBlank(ret.text) => ret.dispatched = None

C16_Witness ==
    /\ AutoChunk
    /\ chunkers = {KnownChunkerSeq[2]}
    /\ ret.dispatched = KnownChunkerSeq[2]
    /\ ret.out.kind = "return"

\* The outcome of the extraction stage of the latest convert_chunk call.
Extraction ==
    ConvertAsyncOutcome(ret.pdf_path, ret.fstate, ret.library, ret.output_format)

\* C17: convert_chunk runs the chunker only after the extraction returned:
\* when the extraction raises, no chunker name is looked up, no chunker is
\* dispatched to and the caller gets exactly the extraction's error.
C17_ChunkOnlyAfterExtraction ==
    ret.op = "convert_chunk" =>
        /\ Extraction.kind = "raise" =>
              /\ ret.out = Extraction
              /\ ret.looked_up = None
              /\ ret.dispatched = None
        /\ ret.dispatched # None => Extraction.kind = "return"
        /\ ret.looked_up # None => Extraction.kind = "return"

C17_Witness ==
    /\ ret.op = "convert_chunk"
    /\ ret.fstate = "corrupt"
    /\ ret.chunker \in chunkers
    /\ ret.params = "chunk_size=512"
    /\ IsConversionFailed(ret.out)
    /\ ret.dispatched = None

\* The callers whose download is running.
Downloading == {c \in Callers : callers[c].pc = "downloading"}

\* The callers that called prepare() while the converter was PENDING.
CalledOnPending == {c \in Callers : callers[c].entered = "PENDING"}

\* C18: the prepare() calls made on a PENDING converter cause one download
\* attempt between them and all return that attempt's outcome; a prepare()
\* that finds the converter DOWNLOADING never starts an attempt.  At any
\* time at most one download runs, and a further attempt is made only by a
\* call made after the previous attempt failed.
C18_OneDownloadAttempt ==
    /\ Cardinality(Downloading) <= 1
    /\ (lazy.download_status = "DOWNLOADING") <=> (Downloading # {})
    /\ \A i \in DOMAIN lazy.attempts :
          /\ lazy.attempts[i] = "DOWNLOADING" => i = Len(lazy.attempts)
          /\ i > 1 => lazy.attempts[i - 1] = "FAILED"
    /\ Cardinality({c \in CalledOnPending : callers[c].started}) <= 1
    /\ \A c \in Callers :
          /\ callers[c].entered = "DOWNLOADING" => ~callers[c].started
          /\ callers[c].pc = "downloading" =>
                callers[c].started /\ callers[c].gen = Len(lazy.attempts) - 1
          /\ (callers[c].pc = "returned" /\ callers[c].entered \in {"PENDING", "DOWNLOADING"}) =>
                /\ callers[c].observed \in {"READY", "FAILED"}
                /\ callers[c].observed = lazy.attempts[callers[c].gen + 1]
                /\ callers[c].out = (callers[c].observed = "READY")
    /\ \A c, d \in CalledOnPending :
          (callers[c].pc = "returned" /\ callers[d].pc = "returned") =>
              callers[c].observed = callers[d].observed

C18_Witness ==
    /\ CalledOnPending = Callers
    /\ \A c \in Callers : callers[c].pc = "returned" /\ callers[c].observed = "FAILED"
    /\ Cardinality({c \in Callers : callers[c].started}) = 1
    /\ Len(lazy.attempts) = 1

Usable == {"NOT_REQUIRED", "READY"}

\* C19: in every state, a converter that reports available reports a
\* download_status of NOT_REQUIRED or READY.
C19_AvailableImpliesUsable ==
    /\ MinerUView(mineru).available => MinerUView(mineru).download_status \in Usable
    /\ LazyView(lazy).available => LazyView(lazy).download_status \in Usable

C19_Witness ==
    /\ MinerUView(mineru).available
    /\ ret.op = "prepare"
    /\ LazyView(lazy).available
    /\ Len(lazy.attempts) = MaxDownloads

\* C20: prepare() on a converter that is NOT_REQUIRED or READY returns the
\* current availability and changes nothing: download_status,
\* download_error and requires_download are as before and no download is
\* started.  A NOT_REQUIRED converter is NOT_REQUIRED in every state.
C20_PrepareIsNoOp ==
    /\ MinerUDownloadStatus(mineru) = "NOT_REQUIRED"
    /\ mineru = MinerUNew
    /\ (ret.op = "prepare" /\ ret.before.download_status \in Usable) =>
          /\ ret.after = ret.before
          /\ ret.fields_after = ret.fields_before
          /\ ~ret.fields_after._is_downloading
          /\ ret.out = ret.before.available
    /\ \A c \in Callers :
          callers[c].entered = "READY" =>
              /\ ~callers[c].started
              /\ LazyView(lazy) = [available |-> TRUE, requires_download |-> TRUE,
                                   download_status |-> "READY", download_error |-> None]
              /\ callers[c].gen = Len(lazy.attempts)
              /\ callers[c].pc = "returned" =>
                    callers[c].observed = "READY" /\ callers[c].out

C20_Witness ==
    /\ ret.op = "prepare"
    /\ ~MINERU_AVAILABLE
    /\ ~ret.out
    /\ \A c \in Callers : callers[c].entered = "READY" /\ callers[c].pc = "returned"

\* C21: every entry of list_all_converters, and the MinerU instance, has a
\* None error message exactly when it is available, and a message that is
\* not None when it is not.
C21_ErrorNoneIffAvailable ==
    /\ ret.op = "list_libraries" =>
          \A i \in DOMAIN ret.out :
              (ret.out[i].error = None) <=> ret.out[i].available
    /\ \A i \in DOMAIN ListAllConverters :
          (ListAllConverters[i].error = None) <=> ListAllConverters[i].available
    /\ (MinerUView(mineru).error_message = None) <=> MinerUView(mineru).available

C21_Witness ==
    /\ ret.op = "list_libraries"
    /\ \E i \in DOMAIN ret.out : ret.out[i].available /\ ret.out[i].error = None
    /\ \E i \in DOMAIN ret.out : ~ret.out[i].available /\ ret.out[i].error # None
    /\ ~MinerUView(mineru).available
    /\ MinerUView(mineru).error_message # None

\* The batches that went through the pool and returned.
PooledBatch ==
    /\ BatchDone
    /\ ret.out.kind = "return"
    /\ ret.inputs # <<>>

\* C22: a batch resolves its library once, before the pool: whatever happens
\* to the registry while the workers run, no file of the batch fails because
\* the library is not available.
C22_ResolvedOnce ==
    PooledBatch =>
        \A i \in DOMAIN ret.inputs :
            LET r == ret.agg.results[PathName(ret.inputs[i])]
            IN  ~(r.is_error /\ r.body[1] = "Converter is not available")

\* The list a registry with keys regs returns.
ListOf(regs) == SelectSeq(KnownSeq, LAMBDA n : n \in regs)

\* C23: a list_available_libraries call made while another thread refreshes
\* returns the complete registry of before the refresh or the complete
\* registry of after it, never an empty or half-built one.
C23_RefreshIsAtomic ==
    ret.op = "list_available_libraries" =>
        ret.out \in {ListOf(ret.old), ListOf(ret.new)}

\* The outcome of the single-file conversion of input p of a batch.
ItemOutcome(p, library, output_format) ==
    FactoryConvert(library, p, FileState(p), output_format)

\* The aggregate the inputs and their outcomes determine: one entry per
\* input under its own name, success and failed counting the outcomes.
DeterminedBy(agg, inputs, library, output_format) ==
    LET ok == {i \in DOMAIN inputs :
                  ItemOutcome(inputs[i], library, output_format).kind = "return"}
    IN  /\ DOMAIN agg.results = InputNames(inputs)
        /\ agg.success = Cardinality(ok)
        /\ agg.failed = Len(inputs) - Cardinality(ok)
        /\ \A i \in DOMAIN inputs :
              LET o == ItemOutcome(inputs[i], library, output_format)
              IN  agg.results[PathName(inputs[i])] =
                     IF i \in ok
                     THEN [is_error |-> FALSE, body |-> o.value]
                     ELSE [is_error |-> TRUE, body |-> o.msg]

\* C24: the aggregate of a batch is determined by its inputs and their
\* individual outcomes alone: in whatever order the workers completed, when
\* every item is collected, and when the batch has returned, success, failed
\* and results are the ones the inputs and outcomes give.
C24_AggregateDetermined ==
    /\ pc = "return" => DeterminedBy(results, pdf_files, call.library, call.output_format)
    /\ PooledBatch => DeterminedBy(ret.agg, ret.inputs, ret.library, ret.output_format)

\* Every item is collected, the second input having completed first.
C24_Witness ==
    /\ pc = "return"
    /\ Len(pdf_files) >= 2
    /\ futures[1].rank = 2
    /\ futures[2].rank = 1
    /\ futures[1].tuple.status # futures[2].tuple.status
    /\ results.success = 1

RunningItems == {j \in DOMAIN futures : futures[j].state = "running"}

\* C25: while a batch runs, at most parallel_workers conversions are in
\* progress, no input is converted twice, and when the batch is about to
\* return every input of the snapshot has been converted once, by the work
\* item of its own position.
C25_BoundedAndExactlyOnce ==
    pc # "idle" =>
        /\ Cardinality(RunningItems) <= call.parallel_workers
        /\ Len(futures) = Len(pdf_files)
        /\ \A i \in DOMAIN futures :
              /\ futures[i].runs = IF futures[i].state = "done" THEN 1 ELSE 0
              /\ futures[i].state = "done" =>
                    futures[i].tuple.filename = PathName(pdf_files[i])
        /\ pc = "return" => \A i \in DOMAIN futures : futures[i].runs = 1

C25_Witness ==
    /\ pc = "collect"
    /\ call.parallel_workers = 1
    /\ Cardinality(RunningItems) = 1
    /\ \E j \in DOMAIN futures : futures[j].state = "queued"

\* Every work item is done and its outcome is in the aggregate.
AllRecorded ==
    /\ \A i \in DOMAIN futures : futures[i].state = "done"
    /\ DOMAIN results.results = InputNames(pdf_files)
    /\ results.success + results.failed = Len(pdf_files)

\* C26: batch_convert returns only when the outcome of every input is
\* recorded, and, the backend calls all ending and the threads being
\* scheduled fairly, a batch that has started returns.
C26_JoinThenReturn ==
    /\ [](pc = "return" => AllRecorded)
    /\ [](PooledBatch => DOMAIN ret.agg.results = InputNames(ret.inputs))
    /\ (ret = Running) ~> BatchDone

C26_Witness ==
    /\ PooledBatch
    /\ Len(ret.inputs) = MaxFiles
    /\ ret.parallel_workers = 1
    /\ ret.agg.failed = MaxFiles

\* The known converters that are enabled in `enabled` and available.
EnabledAndAvailable(enabled) == {n \in Known : n \in enabled /\ n \in available}

\* A refresh leaves exactly the converters enabled in the table and available.
RefreshIsExact ==
    RefreshConverters =>
        (/\ converters' = EnabledAndAvailable(get_enabled_libraries)
         /\ \A n \in Names : n \notin get_enabled_libraries => n \notin converters')

\* A change of the table leaves the registry as it is.
TableChangeKeepsRegistry ==
    (user_libraries' # user_libraries) =>
        (converters' = converters /\ enabled_read' = enabled_read)

C28_ReadAfterWrite ==
    [][\A n \in Known, b \in BOOLEAN :
          SetLibraryStatus(n, b) =>
              /\ (n \in get_enabled_libraries') <=> b
              /\ \A o \in DOMAIN user_libraries \ {n} :
                    /\ o \in DOMAIN user_libraries'
                    /\ user_libraries'[o] = user_libraries[o]
              /\ DOMAIN user_libraries' = DOMAIN user_libraries \cup {n}
              /\ Upsert(user_libraries', n, b) = user_libraries']_vars

\* A library has been enabled since the latest build read the table.
C28_Witness ==
    \E n \in Known : n \notin enabled_read /\ user_libraries[n] = 1

\* The calls that run MinerU: on the instance, through convert, in a batch.
MinerUCalls == {"mineru_convert", "convert_mineru"}

\* C29: a MinerU conversion returns content only when the input exists, the
\* command exited with code 0 and a markdown file was found; a missing
\* input, another exit code (whatever the command wrote), a timeout or no
\* markdown file always ends in an error.
C29_ContentOnlyOnCleanExit ==
    /\ ret.op \in MinerUCalls =>
          /\ ret.out.kind \in {"return", "raise"}
          /\ ret.out.kind = "return" <=>
                (/\ MINERU_AVAILABLE
                 /\ ret.exists
                 /\ ret.cli = "exit 0"
                 /\ ret.artifacts # "none")
          /\ ret.out.kind = "raise" => ret.out.value = <<>>
    /\ ret.op = "batch_item_mineru" =>
          (ret.tuple.status = "success" <=>
                (/\ MINERU_AVAILABLE
                 /\ ret.exists
                 /\ ret.cli = "exit 0"
                 /\ ret.artifacts # "none"))

C29_Witness ==
    /\ ret.op = "mineru_convert"
    /\ MINERU_AVAILABLE
    /\ ret.exists
    /\ ret.cli = "exit 1"
    /\ ret.artifacts = "stem/stem.md"
    /\ ret.out.kind = "raise"

\* The message of the expired timeout.
TimeoutMessage == <<"timed out after seconds", MinerUTimeout>>

\* Sequence m ends with sequence t.
EndsWith(m, t) ==
    /\ Len(m) >= Len(t)
    /\ SubSeq(m, Len(m) - Len(t) + 1, Len(m)) = t

\* The calls in which the mineru command ran and did not end in time.
TimedOut ==
    /\ MINERU_AVAILABLE
    /\ ret.exists
    /\ ret.cli = "timeout"

\* C30: when the mineru command does not end within its timeout, convert
\* raises the conversion-failed ValueError carrying the timeout message, and
\* a batch records the file as failed with {error: message}; neither
\* returns content, whatever the command had written.
C30_TimeoutIsConversionFailed ==
    /\ (ret.op = "convert_mineru" /\ TimedOut) =>
          /\ IsConversionFailed(ret.out)
          /\ EndsWith(ret.out.msg, TimeoutMessage)
          /\ ret.out.value = <<>>
    /\ (ret.op = "batch_item_mineru" /\ TimedOut) =>
          /\ ret.tuple.status = "failed"
          /\ ret.agg.failed = 1
          /\ ret.agg.success = 0
          /\ ret.agg.results[ret.tuple.filename].is_error
          /\ EndsWith(ret.agg.results[ret.tuple.filename].body, TimeoutMessage)

C30_Witness ==
    /\ ret.op = "convert_mineru"
    /\ TimedOut
    /\ ret.artifacts = "stem.md"
    /\ ret.output_format = "json"
    /\ IsConversionFailed(ret.out)

\* The operations that query the enablement table.
ReadingCalls == {"OCRFactory", "refresh_converters", "list_all_converters"}

\* C31: when the read of the enablement table raises during a registry
\* build (constructor or refresh) or during list_all_converters, the
\* failure is logged and the operation returns: no exception reaches the
\* caller.
C31_FailedReadIsLoggedNotRaised ==
    (ret.op \in ReadingCalls /\ ret.db_raises) =>
        /\ ret.logged # <<>>
        /\ ret.out.kind = "return"

====
